---- MODULE Spec2Model ----
(***************************************************************************)
(* Model of src/GCode_writer.ipynb: the G-code generator for the glue      *)
(* dispenser.  The notebook has three cells: the function definitions      *)
(* (initialize, moveTo, glueDeposition), the generation cell that builds   *)
(* the dot grid and writes <filename>Si.gcode, and the plot cell that      *)
(* rebuilds the grid and hands it to the scatter plot.                     *)
(*                                                                         *)
(* Lengths are integers in tenths of a millimetre (stepX = 20 mm is 200,   *)
(* stepY = 26.2 mm is 262).  A Python string is a sequence of tokens, and  *)
(* s += t is the concatenation \o; '\n' is the token "eol".                *)
(***************************************************************************)
EXTENDS Integers, Sequences, FiniteSets

VARIABLES
    pc,          \* position in the notebook run
    filename,    \* ladder length in number of silicons (global `filename`)
    glueDots_X,  \* row width (global `glueDots_X`)
    glueCoord,   \* the dot grid (global `glueCoord`)
    oldXY,       \* previously visited dot (global `oldXY`)
    i,           \* loop index of the write loop
    file,        \* "none", "open" or "closed": the file <filename>Si.gcode
    gcode,       \* the strings written to the file, in order
    scatter,     \* the coordinates handed to plt.scatter
    machine,     \* the controller after executing the strings written so far
    call,        \* arguments of a direct call of moveTo / glueDeposition
    ret          \* the string that call returned

vars == <<pc, filename, glueDots_X, glueCoord, oldXY, i, file, gcode,
          scatter, machine, call, ret>>

(***************************************************************************)
(* Bounds of the model                                                     *)
(***************************************************************************)
Below == 1      \* ladder lengths tried below 0
Above == 1      \* ladder lengths tried above maxLadder
MaxPause == 5   \* dwell durations 0..MaxPause (plus the values of PadCases)
MaxDelta == 3   \* move deltas -MaxDelta..MaxDelta, in dot steps

(***************************************************************************)
(* Program constants                                                       *)
(***************************************************************************)
stepX == 200
stepY == 262
maxLadder == 12

ValidLadder == 1..maxLadder
LadderInputs == (0 - Below)..(maxLadder + Above)
PadCases == {99, 100, 999, 1000}
PauseInputs == (0..MaxPause) \cup PadCases

(***************************************************************************)
(* Strings as token sequences                                              *)
(***************************************************************************)
Tok(t, s, n) == [tok |-> t, text |-> s, num |-> n]

Word(s) == <<Tok("word", s, <<>>)>>

EOL == <<Tok("eol", "\n", <<>>)>>

Abs(v) == IF v < 0 THEN 0 - v ELSE v

\* f'{v:.3f}' of a length of t tenths: <<sign, integer part, 3-digit fraction>>
Fmt3f(t) == <<IF t < 0 THEN 1 ELSE 0, Abs(t) \div 10, (Abs(t) % 10) * 100>>

\* the value, in tenths, that a .3f field reads back as
Parse3f(f) == (IF f[1] = 1 THEN 0 - 1 ELSE 1) * (f[2] * 10 + f[3] \div 100)

RECURSIVE Digits(_)
Digits(n) == IF n < 10 THEN <<n>> ELSE Digits(n \div 10) \o <<n % 10>>

\* f'{n:03d}': the decimal digits, zero-padded on the left to width 3
Pad3(n) ==
    LET d == Digits(n)
    IN  IF Len(d) >= 3 THEN d
        ELSE [k \in 1..(3 - Len(d)) |-> 0] \o d

NumLines(s) == Cardinality({k \in 1..Len(s) : s[k].tok = "eol"})

(***************************************************************************)
(* Cell 1: the emitters                                                    *)
(***************************************************************************)
Speed(fast) == IF fast THEN "G00" ELSE "G01"

initialize_homeBeforeRetract(zero_glue, feed_rate, fast) ==
    Word("; Program initialization") \o EOL
    \o Word("$100=159.949; X axis steps/mm") \o EOL
    \o Word("$101=160.241; Y axis steps/mm") \o EOL
    \o Word("$130=990; X axis maximum travel") \o EOL
    \o Word("$X; GRBL unlock") \o EOL
    \o <<Tok("F", "F", Digits(feed_rate))>> \o EOL
    \o Word("$H; GRBL homing") \o EOL
    \o Word("M3") \o EOL
    \o Word("G91") \o EOL
    \o Word(Speed(fast))
    \o <<Tok("X", "X", Fmt3f(zero_glue[1])), Tok("Y", "Y", Fmt3f(zero_glue[2]))>>
    \o EOL
    \o Word("; End of program initialization") \o EOL

initialize(zero_glue, feed_rate, fast) ==
    Word("; Program initialization") \o EOL
    \o Word("$100=159.949; X axis steps/mm") \o EOL
    \o Word("$101=160.241; Y axis steps/mm") \o EOL
    \o Word("$130=990; X axis maximum travel") \o EOL
    \o Word("$X; GRBL unlock") \o EOL
    \o Word("M3") \o EOL
    \o <<Tok("F", "F", Digits(feed_rate))>> \o EOL
    \o Word("$H; GRBL homing") \o EOL
    \o Word("G91") \o EOL
    \o Word(Speed(fast))
    \o <<Tok("X", "X", Fmt3f(zero_glue[1])), Tok("Y", "Y", Fmt3f(zero_glue[2]))>>
    \o EOL
    \o Word("; End of program initialization") \o EOL

moveTo_fieldIfPositive(xy, fast, comment) ==
    Word(Speed(fast))
    \o (IF xy[1] > 0 THEN <<Tok("X", "X", Fmt3f(xy[1]))>> ELSE <<>>)
    \o (IF xy[2] > 0 THEN <<Tok("Y", "Y", Fmt3f(xy[2]))>> ELSE <<>>)
    \o comment
    \o EOL

moveTo_zeroFields(xy, fast, comment) ==
    Word(Speed(fast))
    \o <<Tok("X", "X", Fmt3f(xy[1]))>>
    \o <<Tok("Y", "Y", Fmt3f(xy[2]))>>
    \o comment
    \o EOL

moveTo(xy, fast, comment) ==
    Word(Speed(fast))
    \o (IF ~(xy[1] = 0) THEN <<Tok("X", "X", Fmt3f(xy[1]))>> ELSE <<>>)
    \o (IF ~(xy[2] = 0) THEN <<Tok("Y", "Y", Fmt3f(xy[2]))>> ELSE <<>>)
    \o comment
    \o EOL

Dwell(p) == <<Tok("P", "G4 P", Pad3(p))>> \o EOL

glueDeposition_noRetractDwell(pause_long, pause_short, pause_glue) ==
    Word("; ------- Glue deposition -------") \o EOL
    \o Word("M4") \o EOL
    \o Dwell(pause_long)
    \o Word("M8") \o EOL
    \o Dwell(pause_short)
    \o Word("M9") \o EOL
    \o Dwell(pause_glue)
    \o Word("M3") \o EOL
    \o Word("; ------- End of glue deposition -------") \o EOL

glueDeposition(pause_long, pause_short, pause_glue) ==
    Word("; ------- Glue deposition -------") \o EOL
    \o Word("M4") \o EOL
    \o Dwell(pause_long)
    \o Word("M8") \o EOL
    \o Dwell(pause_short)
    \o Word("M9") \o EOL
    \o Dwell(pause_glue)
    \o Word("M3") \o EOL
    \o Dwell(pause_long)
    \o Word("; ------- End of glue deposition -------") \o EOL

\* the default arguments of the emitters
zero_glue_default == <<0, 2370>>
feed_rate_default == 1000
pause_long_default == 2
pause_short_default == 1
pause_glue_default == 1

(***************************************************************************)
(* The grid loops shared by the generation cell and the plot cell          *)
(***************************************************************************)
GridRow_noReverse(r, w) ==
    IF w <= 0 THEN <<>>
    ELSE [k \in 1..w |-> <<(k - 1) * stepX, r * stepY>>]

\* one pass of the inner loop `for j in range(w)` for row r
GridRow(r, w) ==
    IF w <= 0 THEN <<>>
    ELSE [k \in 1..w |->
            IF r % 2 = 0 THEN <<(k - 1) * stepX, r * stepY>>
            ELSE <<(w - (k - 1) - 1) * stepX, r * stepY>>]

GridLoops_threeRows(w) == GridRow(0, w) \o GridRow(1, w) \o GridRow(2, w)

\* the outer loop `for i in range(4)`
GridLoops(w) == GridRow(0, w) \o GridRow(1, w) \o GridRow(2, w) \o GridRow(3, w)

\* generation cell: glueDots_X = 50 -((12 - filename + 1)*4)
GenRowWidth(L) == 50 - ((12 - L + 1) * 4)

\* plot cell: glueDots_X = 51-((12-filename)*4)
PlotRowWidth(L) == 51 - ((12 - L) * 4)

\* the position comments of the write loop, for loop index n
MoveComment(n) ==
    <<Tok("comment", " ; Glue dot in position",
          <<IF (n \div 51) % 2 = 0 THEN n % 51 ELSE 50 - (n % 51),
            (n \div 51) % 4>>)>>

FirstDotLine(n) ==
    <<Tok("comment", "; First glue dot in position",
          <<n % 51, (n \div 51) % 4>>)>> \o EOL

(***************************************************************************)
(* The controller read as a machine: Z axis and dispenser                  *)
(***************************************************************************)
IsDispenseBlock(s) == Len(s) > 0 /\ s[1].text = "; ------- Glue deposition -------"

\* the controller at power-on: Z position not known, dispenser idle
PowerOn == [z |-> "unknown", dispenser |-> "off", safe |-> TRUE]

IsMotion(t) == t.tok = "word" /\ t.text \in {"$H; GRBL homing", "G00", "G01"}

ExecToken(m, t) ==
    IF t.tok # "word" THEN m
    ELSE IF t.text = "M3" THEN [m EXCEPT !.z = "retracted"]
    ELSE IF t.text = "M4" THEN [m EXCEPT !.z = "extended"]
    ELSE IF t.text = "M8"
         THEN [m EXCEPT !.dispenser = "on",
                        !.safe = m.safe /\ m.z = "extended"]
    ELSE IF t.text = "M9" THEN [m EXCEPT !.dispenser = "off"]
    ELSE IF IsMotion(t)
         THEN [m EXCEPT !.safe = m.safe /\ m.z = "retracted"
                                        /\ m.dispenser = "off"]
    ELSE m

RECURSIVE ExecString(_, _, _)
ExecString(mach, str, pos) ==
    IF pos > Len(str) THEN mach
    ELSE ExecString(ExecToken(mach, str[pos]), str, pos + 1)

ExecWrite(m, s) ==
    LET n == ExecString(m, s, 1)
    IN  IF IsDispenseBlock(s)
        THEN [n EXCEPT !.safe = n.safe /\ n.z = "retracted"
                                       /\ n.dispenser = "off"]
        ELSE n


\* one or two strings written by one loop iteration
ExecWrites(m, ws) ==
    IF Len(ws) = 1 THEN ExecWrite(m, ws[1])
    ELSE ExecWrite(ExecWrite(m, ws[1]), ws[2])

(***************************************************************************)
(* The notebook run                                                        *)
(***************************************************************************)
NoCall == [fn |-> "none", xy |-> <<0, 0>>, fast |-> FALSE, comment |-> <<>>,
           pauses |-> <<0, 0, 0>>]

Init ==
    /\ pc = "NotStarted"
    /\ filename = 0
    /\ glueDots_X = 0
    /\ glueCoord = <<>>
    /\ oldXY = <<0, 0>>
    /\ i = 0
    /\ file = "none"
    /\ gcode = <<>>
    /\ scatter = <<>>
    /\ machine = PowerOn
    /\ call = NoCall
    /\ ret = <<>>

\* generation cell up to `print(len(glueDots))`; glueCoord[0] of an empty
\* array raises IndexError before the file is opened
BuildGrid(L) ==
    /\ pc = "NotStarted"
    /\ filename' = L
    /\ glueDots_X' = GenRowWidth(L)
    /\ glueCoord' = GridLoops(GenRowWidth(L))
    /\ IF Len(glueCoord') = 0
       THEN /\ pc' = "Error"
            /\ oldXY' = oldXY
       ELSE /\ pc' = "GridBuilt"
            /\ oldXY' = glueCoord'[1]
    /\ UNCHANGED <<i, file, gcode, scatter, machine, call, ret>>

\* `with open(...) as gcode:` and `gcode.write(initialize())`
OpenAndInitialize ==
    /\ pc = "GridBuilt"
    /\ file' = "open"
    /\ gcode' = <<initialize(zero_glue_default, feed_rate_default, TRUE)>>
    /\ machine' = ExecWrite(machine, gcode'[1])
    /\ i' = 0
    /\ pc' = "Initialized"
    /\ UNCHANGED <<filename, glueDots_X, glueCoord, oldXY, scatter, call, ret>>

EmitDot_dispenseInMoveBranch ==
    /\ pc \in {"Initialized", "Emitting"}
    /\ i < Len(glueCoord)
    /\ LET xy == glueCoord[i + 1]
           delta == <<xy[1] - oldXY[1], xy[2] - oldXY[2]>>
       IN  /\ gcode' =
                  IF ~(delta[1] = 0 /\ delta[2] = 0)
                  THEN gcode \o <<moveTo(delta, TRUE, MoveComment(i)),
                                  glueDeposition(pause_long_default,
                                                 pause_short_default,
                                                 pause_glue_default)>>
                  ELSE gcode \o <<FirstDotLine(i)>>
           /\ oldXY' = xy
    /\ machine' = ExecWrites(machine, SubSeq(gcode', Len(gcode) + 1, Len(gcode')))
    /\ i' = i + 1
    /\ pc' = "Emitting"
    /\ UNCHANGED <<filename, glueDots_X, glueCoord, file, scatter, call, ret>>

\* one iteration of `for i in range(len(glueCoord))`
EmitDot ==
    /\ pc \in {"Initialized", "Emitting"}
    /\ i < Len(glueCoord)
    /\ LET xy == glueCoord[i + 1]
           delta == <<xy[1] - oldXY[1], xy[2] - oldXY[2]>>
           positioning ==
               IF ~(delta[1] = 0 /\ delta[2] = 0)
               THEN moveTo(delta, TRUE, MoveComment(i))
               ELSE FirstDotLine(i)
       IN  /\ gcode' = gcode \o <<positioning,
                                   glueDeposition(pause_long_default,
                                                  pause_short_default,
                                                  pause_glue_default)>>
           /\ oldXY' = xy
    /\ machine' = ExecWrites(machine, SubSeq(gcode', Len(gcode) + 1, Len(gcode')))
    /\ i' = i + 1
    /\ pc' = "Emitting"
    /\ UNCHANGED <<filename, glueDots_X, glueCoord, file, scatter, call, ret>>

\* loop exhausted: `gcode.write('SH')`, then the with-block closes the file
Finish ==
    /\ pc \in {"Initialized", "Emitting"}
    /\ i >= Len(glueCoord)
    /\ gcode' = gcode \o <<Word("SH")>>
    /\ machine' = ExecWrite(machine, gcode'[Len(gcode')])
    /\ file' = "closed"
    /\ pc' = "Finished"
    /\ UNCHANGED <<filename, glueDots_X, glueCoord, oldXY, i, scatter, call, ret>>

\* plot cell; np.array(glueDots)[:,0] of an empty list raises IndexError
PlotCell(L) ==
    /\ pc = "NotStarted"
    /\ filename' = L
    /\ glueDots_X' = PlotRowWidth(L)
    /\ glueCoord' = GridLoops(PlotRowWidth(L))
    /\ IF Len(glueCoord') = 0
       THEN /\ pc' = "Error"
            /\ scatter' = scatter
       ELSE /\ pc' = "Plotted"
            /\ scatter' = glueCoord'
    /\ UNCHANGED <<oldXY, i, file, gcode, machine, call, ret>>

Generate == \E L \in LadderInputs : BuildGrid(L)

Plot == \E L \in LadderInputs : PlotCell(L)

Next == Generate \/ OpenAndInitialize \/ EmitDot \/ Finish \/ Plot

Spec == Init /\ [][Next]_vars

(***************************************************************************)
(* Direct calls of the pure emitters, with the arguments drawn from        *)
(* bounded sets                                                            *)
(***************************************************************************)
DeltaInputs ==
    {<<a * stepX, b * stepY>> : a \in (0 - MaxDelta)..MaxDelta,
                                b \in (0 - MaxDelta)..MaxDelta}

CommentInputs == {<<>>, MoveComment(0), MoveComment(52)}

Idle ==
    /\ filename = 0
    /\ glueDots_X = 0
    /\ glueCoord = <<>>
    /\ oldXY = <<0, 0>>
    /\ i = 0
    /\ file = "none"
    /\ gcode = <<>>
    /\ scatter = <<>>
    /\ machine = PowerOn

InitMove ==
    /\ Idle
    /\ pc = "Call"
    /\ call \in [fn : {"moveTo"}, xy : DeltaInputs, fast : BOOLEAN,
                  comment : CommentInputs, pauses : {<<0, 0, 0>>}]
    /\ ret = <<>>

CallMoveTo ==
    /\ pc = "Call"
    /\ call.fn = "moveTo"
    /\ ret' = moveTo(call.xy, call.fast, call.comment)
    /\ pc' = "Returned"
    /\ UNCHANGED <<filename, glueDots_X, glueCoord, oldXY, i, file, gcode,
                   scatter, machine, call>>

SpecMove == InitMove /\ [][CallMoveTo]_vars

InitDispense ==
    /\ Idle
    /\ pc = "Call"
    /\ call \in [fn : {"glueDeposition"}, xy : {<<0, 0>>}, fast : {FALSE},
                  comment : {<<>>},
                  pauses : PauseInputs \X PauseInputs \X PauseInputs]
    /\ ret = <<>>

CallGlueDeposition ==
    /\ pc = "Call"
    /\ call.fn = "glueDeposition"
    /\ ret' = glueDeposition(call.pauses[1], call.pauses[2], call.pauses[3])
    /\ pc' = "Returned"
    /\ UNCHANGED <<filename, glueDots_X, glueCoord, oldXY, i, file, gcode,
                   scatter, machine, call>>

SpecDispense == InitDispense /\ [][CallGlueDeposition]_vars

(***************************************************************************)
(* Reading the emitted text back                                           *)
(***************************************************************************)
HasField(s, axis) == \E k \in 1..Len(s) : s[k].tok = axis

FieldValue(s, axis) ==
    IF HasField(s, axis)
    THEN Parse3f(s[CHOOSE k \in 1..Len(s) : s[k].tok = axis].num)
    ELSE 0

CommentOf(s) == s[CHOOSE k \in 1..Len(s) : s[k].tok = "comment"].num

\* the lines of a string, each without its terminator
RECURSIVE SplitLines(_)
SplitLines(s) ==
    IF \A k \in 1..Len(s) : s[k].tok # "eol" THEN (IF s = <<>> THEN <<>> ELSE <<s>>)
    ELSE LET e == CHOOSE k \in 1..Len(s) :
                     s[k].tok = "eol" /\ \A j \in 1..(k - 1) : s[j].tok # "eol"
         IN  <<SubSeq(s, 1, e - 1)>> \o SplitLines(SubSeq(s, e + 1, Len(s)))

RECURSIVE DigitsValue(_)
DigitsValue(d) ==
    IF d = <<>> THEN 0 ELSE DigitsValue(SubSeq(d, 1, Len(d) - 1)) * 10 + d[Len(d)]

IsInitBlock(s) == Len(s) > 0 /\ s[1].text = "; Program initialization"

IsMoveLine(s) == Len(s) > 0 /\ s[1].tok = "word" /\ s[1].text \in {"G00", "G01"}

IsFirstDotLine(s) == Len(s) > 0 /\ s[1].text = "; First glue dot in position"

IsTermination(s) == Len(s) = 1 /\ s[1].text = "SH"

Generating == pc \in {"Initialized", "Emitting", "Finished"}

\* the position the moves written for the dots 0..k-1 add up to
RECURSIVE PathPosition(_)
PathPosition(k) ==
    IF k = 0 THEN <<0, 0>>
    ELSE LET p == PathPosition(k - 1)
         IN  <<p[1] + FieldValue(gcode[2 * k], "X"),
               p[2] + FieldValue(gcode[2 * k], "Y")>>

(***************************************************************************)
(* Properties                                                              *)
(***************************************************************************)

\* C1: the (column, row) pair written in the comment of every emitted dot k
\* gives back the dot's coordinate, grid[k] = (column*stepX, row*stepY), with
\* row and column taken from the row width the grid was built with.
PositionCommentRoundTrip ==
    (Generating /\ filename \in ValidLadder) =>
        \A k \in 1..i :
            LET c == CommentOf(gcode[2 * k])
                n == k - 1
                row == (n \div glueDots_X) % 4
            IN  /\ glueCoord[k] = <<c[1] * stepX, c[2] * stepY>>
                /\ c[2] = row
                /\ c[1] = IF row % 2 = 0 THEN n % glueDots_X
                          ELSE glueDots_X - 1 - (n % glueDots_X)

\* C2: a ladder length outside 1..12, or one whose row width is <= 0, ends
\* the generation in an error with nothing written and no file opened; the
\* Initialized state is never reached.
InvalidLadderRejected ==
    (pc \notin {"NotStarted", "Plotted", "Call", "Returned"}
        /\ (filename \notin ValidLadder \/ glueDots_X <= 0)) =>
        (pc = "Error" /\ gcode = <<>> /\ file = "none")

\* C3: for every valid ladder length the grid of either cell has exactly
\* 4*rowWidth coordinates, rowWidth is positive, and rowWidth is strictly
\* increasing in the ladder length.
GridSizeAndMonotonicWidth ==
    (pc \in {"GridBuilt", "Plotted"} /\ filename \in ValidLadder) =>
        /\ glueDots_X > 0
        /\ Len(glueCoord) = 4 * glueDots_X
        /\ \A L \in ValidLadder :
              LET w == IF pc = "GridBuilt" THEN GenRowWidth(L)
                       ELSE PlotRowWidth(L)
              IN  /\ (L < filename => w < glueDots_X)
                  /\ (L > filename => w > glueDots_X)

GridBuiltForValidLadder ==
    /\ pc \in {"GridBuilt", "Plotted"}
    /\ filename = 5
    /\ Len(glueCoord) > 0

\* C4: consecutive grid coordinates (in tenths of a millimetre) of the same
\* row differ by dx = +stepX on rows 0 and 2 and dx = -stepX on rows 1 and 3
\* with dy = 0; the last dot of a row and the first of the next differ by
\* dx = 0 and dy = stepY.
SerpentineAdjacency ==
    (pc \in {"GridBuilt", "Plotted"} /\ filename \in ValidLadder) =>
        \A k \in 1..(Len(glueCoord) - 1) :
            LET r1 == (k - 1) \div glueDots_X
                r2 == k \div glueDots_X
                dx == glueCoord[k + 1][1] - glueCoord[k][1]
                dy == glueCoord[k + 1][2] - glueCoord[k][2]
            IN  /\ (r1 = r2) =>
                      (dy = 0 /\ dx = IF r1 % 2 = 0 THEN stepX ELSE 0 - stepX)
                /\ (r2 = r1 + 1) => (dx = 0 /\ dy = stepY)
                /\ r2 \in {r1, r1 + 1}

GridWithRowChange ==
    /\ pc = "GridBuilt"
    /\ filename \in ValidLadder
    /\ glueDots_X >= 2
    /\ Len(glueCoord) > 2 * glueDots_X
    /\ glueCoord[glueDots_X + 1][2] = stepY

\* C5: the output is one initializer block, then for each dot 0..N-1 in
\* increasing order one positioning line immediately followed by one
\* dispense block, then one termination instruction as the last output;
\* a complete run has N = 4*rowWidth dispense blocks.
LinearEmissionOrder ==
    /\ ~Generating => gcode = <<>>
    /\ Generating =>
          /\ Len(gcode) = 1 + 2 * i + (IF pc = "Finished" THEN 1 ELSE 0)
          /\ \A k \in 1..Len(gcode) :
                /\ IsInitBlock(gcode[k]) <=> (k = 1)
                /\ IsTermination(gcode[k]) <=>
                      (pc = "Finished" /\ k = Len(gcode))
                /\ IsDispenseBlock(gcode[k]) <=>
                      (k % 2 = 1 /\ k > 1 /\ k <= 1 + 2 * i)
                /\ (IsMoveLine(gcode[k]) \/ IsFirstDotLine(gcode[k])) <=>
                      (k % 2 = 0 /\ k <= 2 * i)
          /\ i >= 1 =>
                PathPosition(i) = <<glueCoord[i][1] - glueCoord[1][1],
                                    glueCoord[i][2] - glueCoord[1][2]>>
          /\ pc = "Finished" =>
                /\ i = 4 * glueDots_X
                /\ Cardinality({k \in 1..Len(gcode) :
                                   IsDispenseBlock(gcode[k])}) = 4 * glueDots_X

CompleteRun ==
    /\ pc = "Finished"
    /\ filename \in ValidLadder
    /\ i >= 8
    /\ IsTermination(gcode[Len(gcode)])

\* C6: the delta to the previously visited dot is (0,0) exactly at i = 0:
\* the comment-only first-dot line is written for dot 0 and for no other
\* dot, every later dot gets a move, and no move has both axis fields
\* absent.
ZeroDeltaOnlyAtFirstDot ==
    (Generating /\ filename \in ValidLadder) =>
        \A k \in 1..i :
            LET prev == IF k = 1 THEN glueCoord[1] ELSE glueCoord[k - 1]
            IN  /\ (glueCoord[k] = prev) <=> (k = 1)
                /\ IsFirstDotLine(gcode[2 * k]) <=> (k = 1)
                /\ IsMoveLine(gcode[2 * k]) <=> (k > 1)
                /\ IsMoveLine(gcode[2 * k]) =>
                      (HasField(gcode[2 * k], "X") \/ HasField(gcode[2 * k], "Y"))

MoveAfterFirstDot ==
    /\ pc = "Emitting"
    /\ filename \in ValidLadder
    /\ i > glueDots_X
    /\ IsFirstDotLine(gcode[2])
    /\ IsMoveLine(gcode[4])

\* C7 as stated: the dispense block has exactly 9 lines.
DispenseBlockNineLines ==
    (pc = "Returned" /\ call.fn = "glueDeposition") => NumLines(ret) = 9

\* C7 amended: the dispense block has exactly 10 lines, each terminated;
\* the line after the Z-extend command M4 and the line after the Z-retract
\* command M3 are the identical dwell for the long pause.
DispenseBlockTenLines ==
    (pc = "Returned" /\ call.fn = "glueDeposition") =>
        LET ls == SplitLines(ret)
        IN  /\ NumLines(ret) = 10
            /\ Len(ls) = 10
            /\ ret[Len(ret)].tok = "eol"
            /\ ls[2] = Word("M4")
            /\ ls[8] = Word("M3")
            /\ ls[3] = ls[9]
            /\ Len(ls[3]) = 1
            /\ ls[3][1].tok = "P"
            /\ Len(ls[3][1].num) >= 3
            /\ DigitsValue(ls[3][1].num) = call.pauses[1]

DispenseDefaultsReturned ==
    /\ pc = "Returned"
    /\ call.fn = "glueDeposition"
    /\ call.pauses = <<2, 1, 1>>
    /\ ret # <<>>

\* C8: the grid of the generated program and the grid handed to the preview
\* both have rowWidth = 51-((12-L)*4) for every valid L; for L = 8 that is
\* rowWidth 35 and 140 coordinates, row 1 starting at x = 680 mm and
\* decreasing by 20 mm per dot down to 0.
RowWidthFormula ==
    (pc \in {"GridBuilt", "Initialized", "Emitting", "Finished", "Plotted"}
        /\ filename \in ValidLadder) =>
        /\ glueDots_X = 51 - ((12 - filename) * 4)
        /\ filename = 8 =>
              /\ glueDots_X = 35
              /\ Len(glueCoord) = 140
              /\ \A j \in 0..34 : glueCoord[35 + j + 1][1] = 6800 - 200 * j

\* C9: the move line has an X field iff dx # 0 and a Y field iff dy # 0,
\* begins with G00 when fast and with G01 otherwise, and ends with the
\* supplied comment followed by one line terminator.
AxisFieldOmission ==
    (pc = "Returned" /\ call.fn = "moveTo") =>
        LET n == Len(ret)
            c == Len(call.comment)
        IN  /\ HasField(ret, "X") <=> (call.xy[1] # 0)
            /\ HasField(ret, "Y") <=> (call.xy[2] # 0)
            /\ ret[1] = Tok("word", IF call.fast THEN "G00" ELSE "G01", <<>>)
            /\ n >= c + 2
            /\ SubSeq(ret, n - c, n - 1) = call.comment
            /\ ret[n].tok = "eol"
            /\ NumLines(ret) = 1

MoveAlongOneAxisReturned ==
    /\ pc = "Returned"
    /\ call.fn = "moveTo"
    /\ call.xy[1] = 0
    /\ call.xy[2] # 0
    /\ call.comment # <<>>
    /\ ~HasField(ret, "X")

\* C10: reading the written stream as a machine (Z extended after M4,
\* retracted after M3; dispenser on after M8, off after M9), a motion
\* instruction is executed only with Z retracted and the dispenser off, the
\* dispenser is switched on only with Z extended, and every dispense block
\* ends with Z retracted and the dispenser off.
NoMotionWhileDispensing ==
    Generating => machine.safe

DispensedAndMoved ==
    /\ pc = "Finished"
    /\ filename = 12
    /\ IsDispenseBlock(gcode[3])
    /\ IsMoveLine(gcode[4])
    /\ machine.z = "retracted"

====
